---- MODULE Spec2Model ----
(***************************************************************************)
(* A model of collections::linked_list::LinkedList<T>                       *)
(* (src/src/linked_list.rs): a singly-linked list of heap-allocated nodes   *)
(* with a raw head pointer, a cached raw tail pointer and a length.         *)
(*                                                                          *)
(* The heap is modelled explicitly: `allocated` is the set of live Box      *)
(* allocations, `element` and `next` are the two fields of each Node.       *)
(* Box::new picks any address that is not currently live.  Releasing a      *)
(* node that is not live or dereferencing one is recorded in `fault`.       *)
(***************************************************************************)
EXTENDS Integers, Sequences, FiniteSets, TLC

\* ---------------------------------------------------------------- bounds
MaxNodes == 3
MaxVal == 2

NodeIds == 1..MaxNodes      \* addresses the allocator can hand out
Values == 1..MaxVal         \* the values of type T that are stored
MaxIndex == MaxNodes + 2    \* insert is tried with every index in 0..MaxIndex
Fuel == MaxNodes + 1        \* more steps than any acyclic chain can take

None == 0                   \* Option<NonNull<Node<T>>>::None
NoElem == 0                 \* Option<T>::None / Option<&T>::None

VARIABLES
    head, tail, len,        \* the fields of LinkedList<T>
    element, next,          \* the fields of Node<T>, per address
    allocated,              \* the live Box<Node<T>> allocations
    fault,                  \* "none", or the first memory/arithmetic fault
    alive,                  \* the LinkedList value exists (not yet dropped)
    last,                   \* the last call: arguments, result, state before
    phase, hist, popped,    \* the calls made on this list since new()
    abs, absRet             \* a sequence put through the same calls, and
                            \* what its last removal gave

heapVars == <<element, next, allocated, fault>>
vars == <<head, tail, len, element, next, allocated, fault, alive,
          last, phase, hist, popped, abs, absRet>>

\* The list and heap as one value, so that the methods are functions on it.
Cur ==
    [head |-> head, tail |-> tail, len |-> len, element |-> element,
     next |-> next, allocated |-> allocated, fault |-> fault]

\* ----------------------------------------------------------------- heap
Fault(s, f) ==
    IF s.fault = "none" THEN [s EXCEPT !.fault = f] ELSE s

\* unsafe { node.as_ref() } / (*node.as_ptr()): the node must be live
Deref(s, n) ==
    IF n \in s.allocated THEN s ELSE Fault(s, "use_after_free")

\* Box::new(Node { element, next }) followed by Box::leak(node).into()
BoxNew(s, n, e, nx) ==
    [s EXCEPT !.allocated = @ \cup {n}, !.element[n] = e, !.next[n] = nx]

\* the Box rebuilt by Box::from_raw goes out of scope; the released cell
\* holds no element and no link any more, and a later Deref of it is a fault
BoxDrop(s, n) ==
    IF n \in s.allocated
    THEN [s EXCEPT !.allocated = @ \ {n}, !.element[n] = NoElem,
                   !.next[n] = None]
    ELSE Fault(s, "double_free")

\* self.len -= 1 on a usize
DecLen(s) ==
    IF s.len = 0 THEN Fault(s, "len_underflow") ELSE [s EXCEPT !.len = @ - 1]

\* ---------------------------------------------------------- observation
RECURSIVE ChainFrom(_, _, _)
\* the nodes met by following next from n, at most `fuel` of them
ChainFrom(s, n, fuel) ==
    IF n = None \/ fuel = 0 THEN <<>>
    ELSE <<n>> \o ChainFrom(s, s.next[n], fuel - 1)

Chain(s) == ChainFrom(s, s.head, Fuel)

Contents(s) == [i \in 1..Len(Chain(s)) |-> s.element[Chain(s)[i]]]

NoDup(c) == \A i, j \in 1..Len(c) : i # j => c[i] # c[j]

\* ------------------------------------------------------------- methods
new == [head |-> None, tail |-> None, len |-> 0]

len_of(s) == s.len

front(s) == IF s.head = None THEN NoElem ELSE s.element[s.head]

\* back written with self.head in place of self.tail
back_head(s) == IF s.head = None THEN NoElem ELSE s.element[s.head]

back(s) == IF s.tail = None THEN NoElem ELSE s.element[s.tail]

\* a call of front() / back(): the node is read through as_ref(), &self
\* gives no way to write
front_call(s) ==
    [st |-> IF s.head = None THEN s ELSE Deref(s, s.head), ret |-> front(s)]

back_call(s) ==
    [st |-> IF s.tail = None THEN s ELSE Deref(s, s.tail), ret |-> back(s)]

\* front_mut written with self.tail in place of self.head
front_mut_tail(s, x) ==
    IF s.tail = None THEN [st |-> s, ret |-> NoElem]
    ELSE [st |-> [Deref(s, s.tail) EXCEPT !.element[s.tail] = x], ret |-> x]

front_mut(s, x) ==
    IF s.head = None THEN [st |-> s, ret |-> NoElem]
    ELSE [st |-> [Deref(s, s.head) EXCEPT !.element[s.head] = x], ret |-> x]

back_mut(s, x) ==
    IF s.tail = None THEN [st |-> s, ret |-> NoElem]
    ELSE [st |-> [Deref(s, s.tail) EXCEPT !.element[s.tail] = x], ret |-> x]

\* push_front with `self.tail = node` done on every call
push_front_settail(s, n, x) ==
    LET s1 == BoxNew(s, n, x, s.head)
    IN  [s1 EXCEPT !.tail = n, !.head = n, !.len = @ + 1]

\* push_front without `self.len += 1`
push_front_nolen(s, n, x) ==
    LET s1 == BoxNew(s, n, x, s.head)
        s2 == IF s1.tail = None THEN [s1 EXCEPT !.tail = n] ELSE s1
    IN  [s2 EXCEPT !.head = n]

push_front(s, n, x) ==
    LET s1 == BoxNew(s, n, x, s.head)
        s2 == IF s1.tail = None THEN [s1 EXCEPT !.tail = n] ELSE s1
    IN  [s2 EXCEPT !.head = n, !.len = @ + 1]

\* push_back without the final `self.tail = node`
push_back_notail(s, n, x) ==
    LET s1 == BoxNew(s, n, x, None)
        s2 == IF s1.tail # None
              THEN [Deref(s1, s1.tail) EXCEPT !.next[s1.tail] = n]
              ELSE [s1 EXCEPT !.head = n]
    IN  [s2 EXCEPT !.len = @ + 1]

\* push_back without the write of the old tail's next
push_back_nolink(s, n, x) ==
    LET s1 == BoxNew(s, n, x, None)
        s2 == IF s1.tail # None THEN s1 ELSE [s1 EXCEPT !.head = n]
    IN  [s2 EXCEPT !.tail = n, !.len = @ + 1]

\* push_back whose new node is built with `next: self.head`
push_back_nexthead(s, n, x) ==
    LET s1 == BoxNew(s, n, x, s.head)
        s2 == IF s1.tail # None
              THEN [Deref(s1, s1.tail) EXCEPT !.next[s1.tail] = n]
              ELSE [s1 EXCEPT !.head = n]
    IN  [s2 EXCEPT !.tail = n, !.len = @ + 1]

push_back(s, n, x) ==
    LET s1 == BoxNew(s, n, x, None)
        s2 == IF s1.tail # None
              THEN [Deref(s1, s1.tail) EXCEPT !.next[s1.tail] = n]
              ELSE [s1 EXCEPT !.head = n]
    IN  [s2 EXCEPT !.tail = n, !.len = @ + 1]

\* pop_front without `if self.head.is_none() { self.tail = None; }`
pop_front_keeptail(s) ==
    IF s.head = None
    THEN [st |-> s, ret |-> NoElem, outcome |-> "ok", steps |-> 0]
    ELSE LET node == s.head
             s0 == Deref(s, node)
             s1 == [s0 EXCEPT !.head = s.next[node]]
             s3 == DecLen(s1)
         IN  [st |-> BoxDrop(s3, node), ret |-> s.element[node],
              outcome |-> "ok", steps |-> 0]

\* pop_front that reads the node in place and never rebuilds the Box
pop_front_leak(s) ==
    IF s.head = None
    THEN [st |-> s, ret |-> NoElem, outcome |-> "ok", steps |-> 0]
    ELSE LET node == s.head
             s0 == Deref(s, node)
             s1 == [s0 EXCEPT !.head = s.next[node]]
             s2 == IF s1.head = None THEN [s1 EXCEPT !.tail = None] ELSE s1
         IN  [st |-> DecLen(s2), ret |-> s.element[node],
              outcome |-> "ok", steps |-> 0]

\* pop_front that sets tail to none whenever it removes a node
pop_front_droptail(s) ==
    IF s.head = None
    THEN [st |-> s, ret |-> NoElem, outcome |-> "ok", steps |-> 0]
    ELSE LET node == s.head
             s0 == Deref(s, node)
             s1 == [s0 EXCEPT !.head = s.next[node], !.tail = None]
             s3 == DecLen(s1)
         IN  [st |-> BoxDrop(s3, node), ret |-> s.element[node],
              outcome |-> "ok", steps |-> 0]

pop_front(s) ==
    IF s.head = None
    THEN [st |-> s, ret |-> NoElem, outcome |-> "ok", steps |-> 0]
    ELSE LET node == s.head
             s0 == Deref(s, node)
             s1 == [s0 EXCEPT !.head = s.next[node]]
             s2 == IF s1.head = None THEN [s1 EXCEPT !.tail = None] ELSE s1
             s3 == DecLen(s2)
         IN  [st |-> BoxDrop(s3, node), ret |-> s.element[node],
              outcome |-> "ok", steps |-> 0]

RECURSIVE PenultimateWalk(_, _, _, _, _)
\* the block of pop_back that walks from head to the node before the last
PenultimateWalk(s, lastN, penultimate, fuel, steps) ==
    IF s.next[lastN] = None
    THEN [penultimate |-> penultimate, steps |-> steps, ended |-> TRUE,
          live |-> lastN \in s.allocated]
    ELSE IF fuel = 0
    THEN [penultimate |-> penultimate, steps |-> steps, ended |-> FALSE,
          live |-> lastN \in s.allocated]
    ELSE LET w == PenultimateWalk(s, s.next[lastN], lastN, fuel - 1, steps + 1)
         IN  [w EXCEPT !.live = @ /\ lastN \in s.allocated]

\* pop_back without `(*penultimate.as_ptr()).next = None`
pop_back_nounlink(s) ==
    IF s.tail = None
    THEN [st |-> s, ret |-> NoElem, outcome |-> "ok", steps |-> 0]
    ELSE LET node == s.tail
         IN  IF s.head = None
             THEN [st |-> BoxDrop(s, node), ret |-> NoElem,
                   outcome |-> "panic", steps |-> 0]
             ELSE
             LET w == PenultimateWalk(s, s.head, None, Fuel, 0)
                 s0 == IF w.live THEN s ELSE Fault(s, "use_after_free")
                 s1 == IF w.penultimate # None
                       THEN [s0 EXCEPT !.tail = w.penultimate]
                       ELSE [s0 EXCEPT !.head = None, !.tail = None]
                 s2 == DecLen(s1)
             IN  IF ~w.ended
                 THEN [st |-> s, ret |-> NoElem, outcome |-> "diverge",
                       steps |-> w.steps]
                 ELSE [st |-> BoxDrop(s2, node),
                       ret |-> s.element[node],
                       outcome |-> "ok", steps |-> w.steps]

pop_back(s) ==
    IF s.tail = None
    THEN [st |-> s, ret |-> NoElem, outcome |-> "ok", steps |-> 0]
    ELSE LET node == s.tail
         IN  IF s.head = None
             THEN \* self.head.unwrap() panics; unwinding drops the Box
                  [st |-> BoxDrop(s, node), ret |-> NoElem,
                   outcome |-> "panic", steps |-> 0]
             ELSE
             LET w == PenultimateWalk(s, s.head, None, Fuel, 0)
                 s0 == IF w.live THEN s ELSE Fault(s, "use_after_free")
                 s1 == IF w.penultimate # None
                       THEN [s0 EXCEPT !.next[w.penultimate] = None,
                                       !.tail = w.penultimate]
                       ELSE [s0 EXCEPT !.head = None, !.tail = None]
                 s2 == DecLen(s1)
             IN  IF ~w.ended
                 THEN [st |-> s, ret |-> NoElem, outcome |-> "diverge",
                       steps |-> w.steps]
                 ELSE [st |-> BoxDrop(s2, node),
                       ret |-> s.element[node],
                       outcome |-> "ok", steps |-> w.steps]

RECURSIVE DropLoop(_, _, _, _)
\* the while loop of Drop::drop, started with node = self.head
DropLoop(s, node, fuel, steps) ==
    IF node = None
    THEN [st |-> s, steps |-> steps, ended |-> TRUE]
    ELSE IF fuel = 0
    THEN [st |-> s, steps |-> steps, ended |-> FALSE]
    ELSE DropLoop(BoxDrop(s, node), s.next[node], fuel - 1, steps + 1)

\* drop that releases the head node only, without the loop
drop_headonly(s) ==
    IF s.head = None
    THEN [st |-> s, steps |-> 0, ended |-> TRUE]
    ELSE [st |-> BoxDrop(s, s.head), steps |-> 1, ended |-> TRUE]

drop(s) == DropLoop(s, s.head, Fuel, 0)

\* clear that resets the two pointers and leaves len as it was
clear_keeplen(s) ==
    LET d == drop(s)
    IN  [st |-> [d.st EXCEPT !.head = new.head, !.tail = new.tail],
         steps |-> d.steps, ended |-> d.ended]

\* *self = Self::new(): the old value is dropped, then overwritten
clear(s) ==
    LET d == drop(s)
    IN  [st |-> [d.st EXCEPT !.head = new.head, !.tail = new.tail,
                             !.len = new.len],
         steps |-> d.steps, ended |-> d.ended]

RECURSIVE InsertWalk_nopanic(_, _, _, _, _)
\* the for loop of insert stopping at the end of the chain, no unwrap
InsertWalk_nopanic(s, before, after, todo, steps) ==
    IF todo = 0 \/ after = None
    THEN [before |-> before, after |-> after, panicked |-> FALSE,
          steps |-> steps, live |-> TRUE]
    ELSE LET w == InsertWalk_nopanic(s, after, s.next[after], todo - 1,
                                     steps + 1)
         IN  [w EXCEPT !.live = @ /\ after \in s.allocated]

RECURSIVE InsertWalk(_, _, _, _, _)
\* the for loop of insert: `todo` iterations are left
InsertWalk(s, before, after, todo, steps) ==
    IF todo = 0
    THEN [before |-> before, after |-> after, panicked |-> FALSE,
          steps |-> steps, live |-> TRUE]
    ELSE IF after = None
    THEN \* after.unwrap() on None
         [before |-> after, after |-> after, panicked |-> TRUE,
          steps |-> steps, live |-> TRUE]
    ELSE LET w == InsertWalk(s, after, s.next[after], todo - 1, steps + 1)
         IN  [w EXCEPT !.live = @ /\ after \in s.allocated]

\* insert without `if after.is_none() { self.tail = node; }`
insert_notail(s, index, n, x) ==
    LET w == InsertWalk(s, None, s.head, index, 0)
        s0 == IF w.live THEN s ELSE Fault(s, "use_after_free")
        s1 == BoxNew(s0, n, x, w.after)
        s2 == IF w.before # None
              THEN [Deref(s1, w.before) EXCEPT !.next[w.before] = n]
              ELSE [s1 EXCEPT !.head = n]
    IN  IF w.panicked
        THEN [st |-> s0, outcome |-> "panic", steps |-> w.steps]
        ELSE [st |-> [s2 EXCEPT !.len = @ + 1], outcome |-> "ok",
              steps |-> w.steps]

\* insert whose new node is built with `next: None`
insert_nextnone(s, index, n, x) ==
    LET w == InsertWalk(s, None, s.head, index, 0)
        s0 == IF w.live THEN s ELSE Fault(s, "use_after_free")
        s1 == BoxNew(s0, n, x, None)
        s2 == IF w.before # None
              THEN [Deref(s1, w.before) EXCEPT !.next[w.before] = n]
              ELSE [s1 EXCEPT !.head = n]
        s3 == IF w.after = None THEN [s2 EXCEPT !.tail = n] ELSE s2
    IN  IF w.panicked
        THEN [st |-> s0, outcome |-> "panic", steps |-> w.steps]
        ELSE [st |-> [s3 EXCEPT !.len = @ + 1], outcome |-> "ok",
              steps |-> w.steps]

\* insert without the write `(*b.as_ptr()).next = node`
insert_nolink(s, index, n, x) ==
    LET w == InsertWalk(s, None, s.head, index, 0)
        s0 == IF w.live THEN s ELSE Fault(s, "use_after_free")
        s1 == BoxNew(s0, n, x, w.after)
        s2 == IF w.before # None THEN s1 ELSE [s1 EXCEPT !.head = n]
        s3 == IF w.after = None THEN [s2 EXCEPT !.tail = n] ELSE s2
    IN  IF w.panicked
        THEN [st |-> s0, outcome |-> "panic", steps |-> w.steps]
        ELSE [st |-> [s3 EXCEPT !.len = @ + 1], outcome |-> "ok",
              steps |-> w.steps]

\* insert with `self.len += 1` done before the walk
insert_lenfirst(s, index, n, x) ==
    LET w == InsertWalk(s, None, s.head, index, 0)
        s0 == IF w.live THEN s ELSE Fault(s, "use_after_free")
        s1 == BoxNew(s0, n, x, w.after)
        s2 == IF w.before # None
              THEN [Deref(s1, w.before) EXCEPT !.next[w.before] = n]
              ELSE [s1 EXCEPT !.head = n]
        s3 == IF w.after = None THEN [s2 EXCEPT !.tail = n] ELSE s2
    IN  IF w.panicked
        THEN [st |-> [s0 EXCEPT !.len = @ + 1], outcome |-> "panic",
              steps |-> w.steps]
        ELSE [st |-> [s3 EXCEPT !.len = @ + 1], outcome |-> "ok",
              steps |-> w.steps]

insert(s, index, n, x) ==
    LET w == InsertWalk(s, None, s.head, index, 0)
        s0 == IF w.live THEN s ELSE Fault(s, "use_after_free")
        s1 == BoxNew(s0, n, x, w.after)
        s2 == IF w.before # None
              THEN [Deref(s1, w.before) EXCEPT !.next[w.before] = n]
              ELSE [s1 EXCEPT !.head = n]
        s3 == IF w.after = None THEN [s2 EXCEPT !.tail = n] ELSE s2
    IN  IF w.panicked
        THEN [st |-> s0, outcome |-> "panic", steps |-> w.steps]
        ELSE [st |-> [s3 EXCEPT !.len = @ + 1], outcome |-> "ok",
              steps |-> w.steps]

\* ------------------------------------------------------- initial state
InitState ==
    [head |-> new.head, tail |-> new.tail, len |-> new.len,
     element |-> [n \in NodeIds |-> NoElem], next |-> [n \in NodeIds |-> None],
     allocated |-> {}, fault |-> "none"]

\* the record kept of a call: what was called, on which state, the result
Call(op, index, elem, node, ret, outcome, steps, pre) ==
    [op |-> op, index |-> index, elem |-> elem, node |-> node, ret |-> ret,
     outcome |-> outcome, steps |-> steps, pre |-> pre]

Init ==
    /\ head = InitState.head
    /\ tail = InitState.tail
    /\ len = InitState.len
    /\ element = InitState.element
    /\ next = InitState.next
    /\ allocated = InitState.allocated
    /\ fault = InitState.fault
    /\ alive = TRUE
    /\ last = Call("new", 0, NoElem, None, NoElem, "ok", 0, InitState)
    /\ phase = "push"
    /\ hist = <<>>
    /\ popped = <<>>
    /\ abs = <<>>
    /\ absRet = NoElem

Install(s) ==
    /\ head' = s.head
    /\ tail' = s.tail
    /\ len' = s.len
    /\ element' = s.element
    /\ next' = s.next
    /\ allocated' = s.allocated
    /\ fault' = s.fault

\* a call can be made on a list that exists, in a run without a fault so far
Callable == alive /\ fault = "none"

FreeNodes == NodeIds \ allocated

\* the calls since new(): pushes only, then (after pushes at one end only)
\* pop_front only, else "other"
NotePush(op, x) ==
    IF phase = "push"
    THEN /\ phase' = "push"
         /\ hist' = Append(hist, <<op, x>>)
         /\ popped' = popped
    ELSE /\ phase' = "other"
         /\ hist' = <<>>
         /\ popped' = <<>>

NotePopFront(ret) ==
    IF /\ phase \in {"push", "pop"}
       /\ Len(popped) <= Len(hist)
       /\ Cardinality({hist[i][1] : i \in 1..Len(hist)}) <= 1
    THEN /\ phase' = "pop"
         /\ hist' = hist
         /\ popped' = Append(popped, ret)
    ELSE /\ phase' = "other"
         /\ hist' = <<>>
         /\ popped' = <<>>

NoteOther ==
    /\ phase' = "other"
    /\ hist' = <<>>
    /\ popped' = <<>>

\* the sequence operations the list is meant to implement
Prepend(q, x) == <<x>> \o q
AppendTo(q, x) == q \o <<x>>
RemoveFirst(q) ==
    IF q = <<>> THEN [seq |-> q, ret |-> NoElem]
    ELSE [seq |-> SubSeq(q, 2, Len(q)), ret |-> q[1]]
RemoveLast(q) ==
    IF q = <<>> THEN [seq |-> q, ret |-> NoElem]
    ELSE [seq |-> SubSeq(q, 1, Len(q) - 1), ret |-> q[Len(q)]]
InsertAt(q, i, x) ==
    IF i > Len(q) THEN q
    ELSE SubSeq(q, 1, i) \o <<x>> \o SubSeq(q, i + 1, Len(q))
SetFirst(q, x) == IF q = <<>> THEN q ELSE [q EXCEPT ![1] = x]
SetLast(q, x) == IF q = <<>> THEN q ELSE [q EXCEPT ![Len(q)] = x]
Empty == <<>>

Abstract(q, ret) ==
    /\ abs' = q
    /\ absRet' = ret

\* -------------------------------------------------------------- actions
New ==
    /\ ~alive
    /\ fault = "none"
    /\ head' = new.head
    /\ tail' = new.tail
    /\ len' = new.len
    /\ alive' = TRUE
    /\ last' = Call("new", 0, NoElem, None, NoElem, "ok", 0, Cur)
    /\ phase' = "push"
    /\ hist' = <<>>
    /\ popped' = <<>>
    /\ Abstract(Empty, NoElem)
    /\ UNCHANGED heapVars

PushFront ==
    /\ Callable
    /\ \E x \in Values, n \in FreeNodes :
          /\ Install(push_front(Cur, n, x))
          /\ last' = Call("push_front", 0, x, n, NoElem, "ok", 0, Cur)
          /\ NotePush("push_front", x)
          /\ Abstract(Prepend(abs, x), NoElem)
    /\ UNCHANGED alive

PushBack ==
    /\ Callable
    /\ \E x \in Values, n \in FreeNodes :
          /\ Install(push_back(Cur, n, x))
          /\ last' = Call("push_back", 0, x, n, NoElem, "ok", 0, Cur)
          /\ NotePush("push_back", x)
          /\ Abstract(AppendTo(abs, x), NoElem)
    /\ UNCHANGED alive

PopFront ==
    /\ Callable
    /\ LET r == pop_front(Cur)
       IN  /\ Install(r.st)
           /\ last' = Call("pop_front", 0, NoElem, None, r.ret, r.outcome,
                           r.steps, Cur)
           /\ NotePopFront(r.ret)
    /\ Abstract(RemoveFirst(abs).seq, RemoveFirst(abs).ret)
    /\ UNCHANGED alive

PopBack ==
    /\ Callable
    /\ LET r == pop_back(Cur)
       IN  /\ Install(r.st)
           /\ last' = Call("pop_back", 0, NoElem, None, r.ret, r.outcome,
                           r.steps, Cur)
    /\ Abstract(RemoveLast(abs).seq, RemoveLast(abs).ret)
    /\ NoteOther
    /\ UNCHANGED alive

Clear ==
    /\ Callable
    /\ LET r == clear(Cur)
       IN  /\ Install(r.st)
           /\ last' = Call("clear", 0, NoElem, None, NoElem,
                           IF r.ended THEN "ok" ELSE "diverge", r.steps, Cur)
    /\ Abstract(Empty, NoElem)
    /\ NoteOther
    /\ UNCHANGED alive

Insert ==
    /\ Callable
    /\ \E index \in 0..MaxIndex, x \in Values :
          /\ IF InsertWalk(Cur, None, head, index, 0).panicked
             THEN LET r == insert(Cur, index, None, x)
                  IN  /\ Install(r.st)
                      /\ last' = Call("insert", index, x, None, NoElem,
                                      r.outcome, r.steps, Cur)
             ELSE \E n \in FreeNodes :
                    LET r == insert(Cur, index, n, x)
                    IN  /\ Install(r.st)
                        /\ last' = Call("insert", index, x, n, NoElem,
                                        r.outcome, r.steps, Cur)
          /\ Abstract(InsertAt(abs, index, x), NoElem)
    /\ NoteOther
    /\ UNCHANGED alive

FrontMut ==
    /\ Callable
    /\ \E x \in Values :
          LET r == front_mut(Cur, x)
          IN  /\ Install(r.st)
              /\ last' = Call("front_mut", 0, x, None, r.ret, "ok", 0, Cur)
              /\ Abstract(SetFirst(abs, x), NoElem)
    /\ NoteOther
    /\ UNCHANGED alive

BackMut ==
    /\ Callable
    /\ \E x \in Values :
          LET r == back_mut(Cur, x)
          IN  /\ Install(r.st)
              /\ last' = Call("back_mut", 0, x, None, r.ret, "ok", 0, Cur)
              /\ Abstract(SetLast(abs, x), NoElem)
    /\ NoteOther
    /\ UNCHANGED alive

Front ==
    /\ Callable
    /\ LET r == front_call(Cur)
       IN  /\ Install(r.st)
           /\ last' = Call("front", 0, NoElem, None, r.ret, "ok", 0, Cur)
    /\ Abstract(abs, NoElem)
    /\ NoteOther
    /\ UNCHANGED alive

Back ==
    /\ Callable
    /\ LET r == back_call(Cur)
       IN  /\ Install(r.st)
           /\ last' = Call("back", 0, NoElem, None, r.ret, "ok", 0, Cur)
    /\ Abstract(abs, NoElem)
    /\ NoteOther
    /\ UNCHANGED alive

\* the list goes out of scope: Drop::drop runs, the value is gone
Drop ==
    /\ Callable
    /\ LET r == drop(Cur)
       IN  /\ Install(r.st)
           /\ last' = Call("drop", 0, NoElem, None, NoElem,
                           IF r.ended THEN "ok" ELSE "diverge", r.steps, Cur)
    /\ Abstract(Empty, NoElem)
    /\ alive' = FALSE
    /\ NoteOther

Next ==
    \/ New
    \/ PushFront
    \/ PushBack
    \/ PopFront
    \/ PopBack
    \/ Clear
    \/ Insert
    \/ FrontMut
    \/ BackMut
    \/ Front
    \/ Back
    \/ Drop

Spec == Init /\ [][Next]_vars

\* ------------------------------------------------------------ typing
TypeOK ==
    /\ head \in NodeIds \cup {None}
    /\ tail \in NodeIds \cup {None}
    /\ len \in 0..MaxNodes
    /\ element \in [NodeIds -> Values \cup {NoElem}]
    /\ next \in [NodeIds -> NodeIds \cup {None}]
    /\ allocated \subseteq NodeIds
    /\ fault = "none"
    /\ alive \in BOOLEAN
    /\ phase \in {"push", "pop", "other"}

\* ------------------------------------------------- what the claims use
Pre == last.pre
PreChain == Chain(last.pre)
PreContents == Contents(last.pre)

\* the sequence a list of pushes on a new list describes
RECURSIVE AbsPushes(_)
AbsPushes(h) ==
    IF h = <<>> THEN <<>>
    ELSE LET prev == AbsPushes(SubSeq(h, 1, Len(h) - 1))
             o == h[Len(h)]
         IN  IF o[1] = "push_front" THEN <<o[2]>> \o prev
             ELSE Append(prev, o[2])

Kinds(h) == {h[i][1] : i \in 1..Len(h)}
Pushed(h) == [i \in 1..Len(h) |-> h[i][2]]
Reverse(q) == [i \in 1..Len(q) |-> q[Len(q) + 1 - i]]

\* C1: in every reachable state of a live list the chain from head has no
\* node twice, has exactly len nodes and ends with none; its last node is
\* the node tail refers to; and tail's next is none.
C1_ChainShape ==
    alive =>
        LET c == Chain(Cur)
        IN  /\ NoDup(c)
            /\ Len(c) = len
            /\ len > 0 => /\ next[c[Len(c)]] = None
                          /\ c[Len(c)] = tail
            /\ tail # None => next[tail] = None

C1_Witness ==
    /\ alive
    /\ last.op = "pop_back"
    /\ len >= 2

\* C2: in every reachable state of a live list, len = 0, head = None and
\* tail = None are all true or all false.
C2_EmptyAgree ==
    alive => /\ (len = 0) <=> (head = None)
             /\ (head = None) <=> (tail = None)

C2_Witness ==
    /\ alive
    /\ last.op = "pop_front"
    /\ Pre.len = 1
    /\ len = 0 /\ head = None /\ tail = None

\* C3: after only push_front and push_back calls on a new list, len() is
\* the number of pushes, the chain from head holds the elements in the
\* order got by prepending on push_front and appending on push_back,
\* front() is the latest push_front element (the first push_back element
\* if there was no push_front) and back() symmetrically.
C3_PushOrder ==
    (alive /\ phase = "push") =>
        LET pf == {i \in 1..Len(hist) : hist[i][1] = "push_front"}
            pb == {i \in 1..Len(hist) : hist[i][1] = "push_back"}
            Max(S) == CHOOSE i \in S : \A j \in S : j <= i
            Min(S) == CHOOSE i \in S : \A j \in S : i <= j
        IN  /\ len_of(Cur) = Len(hist)
            /\ Contents(Cur) = AbsPushes(hist)
            /\ hist = <<>> => front(Cur) = NoElem /\ back(Cur) = NoElem
            /\ pf # {} => front(Cur) = hist[Max(pf)][2]
            /\ (pf = {} /\ pb # {}) => front(Cur) = hist[Min(pb)][2]
            /\ pb # {} => back(Cur) = hist[Max(pb)][2]
            /\ (pb = {} /\ pf # {}) => back(Cur) = hist[Min(pf)][2]

C3_Witness ==
    /\ alive
    /\ phase = "push"
    /\ Len(hist) >= 3
    /\ Kinds(hist) = {"push_front", "push_back"}
    /\ front(Cur) # back(Cur)

\* C4: insert(index, x) with index <= len leaves the contents equal to
\* s[0..index], x, s[index..], adds exactly 1 to len, makes x the element
\* at position index, changes tail iff index was the old len and changes
\* head iff index was 0.
C4_InsertAt ==
    (last.op = "insert" /\ last.index <= Pre.len) =>
        /\ last.outcome = "ok"
        /\ Contents(Cur) = SubSeq(PreContents, 1, last.index)
                              \o <<last.elem>>
                              \o SubSeq(PreContents, last.index + 1, Pre.len)
        /\ len = Pre.len + 1
        /\ Len(Contents(Cur)) > last.index
        /\ Contents(Cur)[last.index + 1] = last.elem
        /\ (tail # Pre.tail) <=> (last.index = Pre.len)
        /\ (head # Pre.head) <=> (last.index = 0)

C4_Witness ==
    /\ last.op = "insert"
    /\ last.outcome = "ok"
    /\ last.index > 0
    /\ last.index < Pre.len
    /\ Contents(Cur)[last.index] # last.elem

\* C5: pop_back on contents s of length n >= 1 returns s[n-1], leaves
\* s[0..n-1], takes 1 from len, and makes tail the former second-to-last
\* node with next none; with n = 1 head and tail become none; on an empty
\* list it returns None.
C5_PopBack ==
    last.op = "pop_back" =>
        /\ last.outcome = "ok"
        /\ IF Pre.len >= 1
           THEN /\ last.ret = PreContents[Pre.len]
                /\ last.ret # NoElem
                /\ Contents(Cur) = SubSeq(PreContents, 1, Pre.len - 1)
                /\ len = Pre.len - 1
                /\ Pre.len >= 2 => /\ tail = PreChain[Pre.len - 1]
                                   /\ next[tail] = None
                /\ Pre.len = 1 => head = None /\ tail = None
           ELSE last.ret = NoElem

C5_Witness ==
    /\ last.op = "pop_back"
    /\ Pre.len >= 3
    /\ last.ret # PreContents[Pre.len - 1]
    /\ tail # None

\* C6: n push_back calls on a new list followed by pop_front calls give
\* the elements back in the order pushed, n push_front calls followed by
\* pop_front calls give them back in the reverse order, and the pop_front
\* after the n-th returns None.
C6_FifoLifo ==
    (alive /\ phase = "pop" /\ Cardinality(Kinds(hist)) <= 1) =>
        LET n == Len(hist)
            expected == IF Kinds(hist) = {"push_front"}
                        THEN Reverse(Pushed(hist))
                        ELSE Pushed(hist)
        IN  \A i \in 1..Len(popped) :
                popped[i] = IF i <= n THEN expected[i] ELSE NoElem

C6_Witness ==
    /\ alive
    /\ phase = "pop"
    /\ Kinds(hist) = {"push_back"}
    /\ Len(hist) >= 3
    /\ Len(popped) = Len(hist) + 1
    /\ popped[1] # popped[2]

\* C7: insert(0, x) gives the same list state as push_front(x) and
\* insert(len(), x) the same as push_back(x): same contents, len, head
\* node, tail node and links, on the empty list too.
C7_InsertEnds ==
    /\ (last.op = "insert" /\ last.index = 0) =>
           /\ last.outcome = "ok"
           /\ Cur = push_front(Pre, last.node, last.elem)
    /\ (last.op = "insert" /\ last.index = Pre.len) =>
           /\ last.outcome = "ok"
           /\ Cur = push_back(Pre, last.node, last.elem)
    /\ last.op = "push_front" =>
           insert(Pre, 0, last.node, last.elem).st = Cur
    /\ last.op = "push_back" =>
           insert(Pre, Pre.len, last.node, last.elem).st = Cur

C7_Witness ==
    /\ last.op = "insert"
    /\ last.index = Pre.len
    /\ Pre.len >= 2
    /\ Cur = push_back(Pre, last.node, last.elem)

\* C8: insert(k, x) panics for every k > len() and does not return, and
\* it does not panic for any k <= len(); the empty list included.
C8_InsertPanics ==
    last.op = "insert" =>
        /\ last.outcome \in {"ok", "panic"}
        /\ (last.outcome = "panic") <=> (last.index > Pre.len)

C8_Witness ==
    /\ last.op = "insert"
    /\ last.outcome = "panic"
    /\ Pre.len >= 1
    /\ last.index = Pre.len + 1

\* C9: after clear(), whatever the size before, len() is 0, front() and
\* back() return None, and the list is in the state of a new list, so
\* every following call does what it does on a new list.
C9_ClearIsNew ==
    last.op = "clear" =>
        /\ len_of(Cur) = 0
        /\ front(Cur) = NoElem
        /\ back(Cur) = NoElem
        /\ Cur = InitState

C9_Witness ==
    /\ last.op = "clear"
    /\ Pre.len >= 2
    /\ alive

\* C10: clear() and Drop each release every node the list owns exactly
\* once: afterwards no node is still allocated, none was released twice,
\* and the number of releases is the number of nodes owned before.
C10_FreesAll ==
    last.op \in {"clear", "drop"} =>
        /\ last.outcome = "ok"
        /\ allocated = {}
        /\ fault = "none"
        /\ last.steps = Cardinality(Pre.allocated)
        /\ last.steps = Pre.len

C10_Witness ==
    /\ last.op = "drop"
    /\ Pre.len >= 2
    /\ Cardinality(Pre.allocated) >= 2
    /\ ~alive

Nodes(c) == {c[i] : i \in 1..Len(c)}

\* C11: in every reachable state no node has been released twice or used
\* after its release, and while the list lives the allocated nodes are
\* exactly the nodes on the chain from head, each once; head, tail and
\* every live node's next refer to a live node or none; pop_front and
\* pop_back release exactly the one node they detach.
C11_OwnedIsReachable ==
    /\ fault = "none"
    /\ alive =>
         /\ allocated = Nodes(Chain(Cur))
         /\ NoDup(Chain(Cur))
         /\ head \in allocated \cup {None}
         /\ tail \in allocated \cup {None}
         /\ \A n \in allocated : next[n] \in allocated \cup {None}
    /\ (last.op = "pop_front" /\ Pre.head # None) =>
         /\ Pre.allocated \ allocated = {Pre.head}
         /\ allocated \subseteq Pre.allocated
    /\ (last.op = "pop_back" /\ Pre.tail # None) =>
         /\ Pre.allocated \ allocated = {Pre.tail}
         /\ allocated \subseteq Pre.allocated

C11_Witness ==
    /\ alive
    /\ last.op = "pop_front"
    /\ Pre.len >= 3
    /\ Cardinality(allocated) = Pre.len - 1

\* C12: front, back, pop_front, pop_back and len never fail: whenever
\* pop_back reaches self.head.unwrap() head is Some, whenever a pop reaches
\* len -= 1 len is at least 1, the node front/back/pop read is live, and
\* on an empty list each of them reports None.
C12_TotalCalls ==
    /\ last.op \in {"pop_front", "pop_back"} =>
         /\ last.outcome = "ok"
         /\ fault = "none"
    /\ alive =>
         /\ tail # None => head # None
         /\ head # None => (len >= 1 /\ head \in allocated)
         /\ tail # None => (len >= 1 /\ tail \in allocated)
         /\ pop_front(Cur).outcome = "ok"
         /\ pop_front(Cur).st.fault = "none"
         /\ pop_back(Cur).outcome = "ok"
         /\ pop_back(Cur).st.fault = "none"
         /\ len_of(Cur) \in 0..MaxNodes
         /\ len = 0 => /\ front(Cur) = NoElem
                       /\ back(Cur) = NoElem
                       /\ pop_front(Cur).ret = NoElem
                       /\ pop_back(Cur).ret = NoElem
         /\ len > 0 => /\ front(Cur) \in Values
                       /\ back(Cur) \in Values
                       /\ pop_front(Cur).ret \in Values
                       /\ pop_back(Cur).ret \in Values

C12_Witness ==
    /\ alive
    /\ last.op = "pop_back"
    /\ Pre.len = 1
    /\ last.ret \in Values
    /\ len = 0

\* C13: pop_front on contents s of length n >= 1 returns s[0], leaves
\* s[1..n], takes 1 from len and leaves tail as it was unless n = 1, where
\* tail becomes none together with head; on an empty list it returns None
\* and leaves head, tail and len as they were.
C13_PopFront ==
    last.op = "pop_front" =>
        /\ last.outcome = "ok"
        /\ IF Pre.len >= 1
           THEN /\ last.ret = PreContents[1]
                /\ last.ret # NoElem
                /\ Contents(Cur) = SubSeq(PreContents, 2, Pre.len)
                /\ len = Pre.len - 1
                /\ Pre.len >= 2 => /\ tail = Pre.tail
                                   /\ head = PreChain[2]
                /\ Pre.len = 1 => head = None /\ tail = None
           ELSE /\ last.ret = NoElem
                /\ head = Pre.head
                /\ tail = Pre.tail
                /\ len = Pre.len

C13_Witness ==
    /\ last.op = "pop_front"
    /\ Pre.len >= 2
    /\ tail = Pre.tail
    /\ last.ret # front(Cur)

\* C14: through every interleaving of the calls the list stays related to
\* the sequence run beside it: the contents from head to tail are the
\* sequence, len() is its length, front() and back() are its first and
\* last element, and each pop returned what the removal from the sequence
\* gave.
C14_RefinesSequence ==
    alive =>
        /\ Contents(Cur) = abs
        /\ len_of(Cur) = Len(abs)
        /\ front(Cur) = IF abs = <<>> THEN NoElem ELSE abs[1]
        /\ back(Cur) = IF abs = <<>> THEN NoElem ELSE abs[Len(abs)]
        /\ last.op \in {"pop_front", "pop_back"} => last.ret = absRet

C14_Witness ==
    /\ alive
    /\ last.op = "pop_back"
    /\ last.ret = absRet
    /\ absRet # NoElem
    /\ Len(abs) >= 2
    /\ phase = "other"
    /\ abs[1] # abs[2]

\* C15: when insert(k, x) panics because k > len(), it does so in the
\* walk, after len() steps, before a node is allocated or a link written:
\* head, tail, len, every next, every element and the set of allocated
\* nodes are as before the call.
C15_PanicChangesNothing ==
    (last.op = "insert" /\ last.index > Pre.len) =>
        /\ last.outcome = "panic"
        /\ last.steps = Pre.len
        /\ last.node = None
        /\ head = Pre.head
        /\ tail = Pre.tail
        /\ len = Pre.len
        /\ next = Pre.next
        /\ element = Pre.element
        /\ allocated = Pre.allocated
        /\ fault = "none"

C15_Witness ==
    /\ last.op = "insert"
    /\ last.outcome = "panic"
    /\ Pre.len >= 2
    /\ last.index >= Pre.len + 2
    /\ Cur = Pre

\* C16: front() returns the element of the node head refers to, which is
\* the first of the contents, and back() the element of the node tail
\* refers to, which is the last; each is None exactly on the empty list;
\* on a one-element list they agree; and a call of either leaves head,
\* tail, len, every link and every element as they were.
C16_FrontBack ==
    /\ alive =>
         /\ Len(Contents(Cur)) = len
         /\ front(Cur) = IF len = 0 THEN NoElem ELSE Contents(Cur)[1]
         /\ back(Cur) = IF len = 0 THEN NoElem ELSE Contents(Cur)[len]
         /\ head # None => front(Cur) = element[head]
         /\ tail # None => back(Cur) = element[tail]
         /\ (front(Cur) = NoElem) <=> (len = 0)
         /\ (back(Cur) = NoElem) <=> (len = 0)
         /\ len = 1 => front(Cur) = back(Cur)
    /\ last.op = "front" =>
         /\ Cur = Pre
         /\ last.ret = IF Pre.len = 0 THEN NoElem ELSE PreContents[1]
    /\ last.op = "back" =>
         /\ Cur = Pre
         /\ last.ret = IF Pre.len = 0 THEN NoElem ELSE PreContents[Pre.len]

C16_Witness ==
    /\ alive
    /\ last.op = "back"
    /\ Pre.len >= 2
    /\ last.ret = element[tail]
    /\ last.ret # front(Cur)

\* C17: a write through front_mut() replaces the first element only and
\* a write through back_mut() the last element only: head, tail, len,
\* every next and every other element stay, and front() (back()) then
\* returns the value written; on an empty list both return None and
\* nothing changes.
C17_MutWritesOneElement ==
    last.op \in {"front_mut", "back_mut"} =>
        LET target == IF last.op = "front_mut" THEN Pre.head ELSE Pre.tail
        IN  /\ head = Pre.head
            /\ tail = Pre.tail
            /\ len = Pre.len
            /\ next = Pre.next
            /\ allocated = Pre.allocated
            /\ fault = "none"
            /\ IF Pre.len = 0
               THEN /\ last.ret = NoElem
                    /\ element = Pre.element
               ELSE /\ target # None
                    /\ last.ret = last.elem
                    /\ \A n \in NodeIds \ {target} :
                           element[n] = Pre.element[n]
                    /\ element[target] = last.elem
                    /\ Len(PreContents) = Pre.len
                    /\ Contents(Cur) =
                         IF last.op = "front_mut"
                         THEN <<last.elem>> \o SubSeq(PreContents, 2, Pre.len)
                         ELSE SubSeq(PreContents, 1, Pre.len - 1)
                                \o <<last.elem>>
                    /\ last.op = "front_mut" => front(Cur) = last.elem
                    /\ last.op = "back_mut" => back(Cur) = last.elem

C17_Witness ==
    /\ last.op = "back_mut"
    /\ Pre.len >= 2
    /\ last.elem # PreContents[Pre.len]
    /\ back(Cur) = last.elem
    /\ front(Cur) # last.elem

\* C18: every walk of the chain ends: the loop of Drop (run by drop and
\* by clear) ends after exactly len iterations, each on a different node;
\* the walk of pop_back ends after exactly len - 1 steps; the walk of
\* insert with index <= len ends after exactly index steps; and no
\* reachable chain has a cycle.
C18_WalksEnd ==
    /\ alive =>
         /\ NoDup(Chain(Cur))
         /\ Len(Chain(Cur)) < Fuel
         /\ drop(Cur).ended
         /\ drop(Cur).steps = len
         /\ drop(Cur).st.fault = "none"
         /\ head # None =>
              /\ PenultimateWalk(Cur, head, None, Fuel, 0).ended
              /\ PenultimateWalk(Cur, head, None, Fuel, 0).steps = len - 1
         /\ \A k \in 0..len :
              /\ ~InsertWalk(Cur, None, head, k, 0).panicked
              /\ InsertWalk(Cur, None, head, k, 0).steps = k
    /\ last.op \in {"drop", "clear"} =>
         /\ last.outcome = "ok"
         /\ last.steps = Pre.len
         /\ last.steps = Cardinality(Nodes(PreChain))
    /\ (last.op = "pop_back" /\ Pre.len >= 1) =>
         /\ last.outcome = "ok"
         /\ last.steps = Pre.len - 1
    /\ (last.op = "insert" /\ last.index <= Pre.len) =>
         /\ last.outcome = "ok"
         /\ last.steps = last.index

C18_Witness ==
    /\ last.op = "drop"
    /\ last.outcome = "ok"
    /\ last.steps >= 3
    /\ last.steps = Pre.len
    /\ allocated = {}

====
